---------------------------- MODULE Spec2Model ----------------------------
(***************************************************************************)
(* Notes RAG backend (FastAPI + MongoDB Atlas Vector Search + Gemini).     *)
(* The model follows backend/app: the pydantic request models, the three   *)
(* route handlers of routes/notes.py, the Gemini embedding service and the *)
(* MongoDB service.  Text is a sequence of one-character strings, so that  *)
(* str.strip(), len() and concatenation are computed, not assumed.  An     *)
(* embedding is [dims, vec]: its length (all the code ever inspects) and   *)
(* an abstract direction the store's similarity score is computed from.    *)
(***************************************************************************)
EXTENDS Integers, Sequences, FiniteSets, TLC

VARIABLES
    lifespan,   \* "startup" until the application serves, then "serving"
    collection, \* MongoDBService.collection: the handle, or None
    store,      \* the notes collection, in insertion order
    nextOid,    \* the next ObjectId the driver hands out
    loop,       \* the request that holds the event loop inside a synchronous call, or "none"
    pc,         \* per request slot: where its handler stands
    kind,       \* per request slot: "create" | "search" | "list" | "none"
    req,        \* per request slot: the request as received (raw body / parameters)
    loc,        \* per request slot: the handler's local variables
    resp,       \* per request slot: the HTTP response ([status |-> 0] while none)
    log         \* per request slot: the external calls the request has made, in order

vars == <<lifespan, collection, store, nextOid, loop, pc, kind, req, loc, resp, log>>

---------------------------------------------------------------------------
(* Bounds of the model *)

MaxNotes == 2       \* create requests admitted over a run (stored + in flight)
MaxClock == 1       \* clock readings are 0..MaxClock

Slots == {"r1", "r2"}

Before(a, b) == a = "r1" /\ b = "r2"

---------------------------------------------------------------------------
(* Program constants *)

gemini_embedding_dimensions == 768
vector_search_num_candidates == 100
title_max_length == 500
limit_ge == 1
limit_le == 50
limit_default == 10
list_limit_default == 100

HTTP_200_OK == 200
HTTP_201_CREATED == 201
HTTP_400_BAD_REQUEST == 400
HTTP_422_UNPROCESSABLE_ENTITY == 422
HTTP_500_INTERNAL_SERVER_ERROR == 500

---------------------------------------------------------------------------
(* Text *)

Whitespace == {" ", "\t", "\n"}

RECURSIVE lstrip(_)
lstrip(s) ==
    IF s # <<>> /\ Head(s) \in Whitespace THEN lstrip(Tail(s)) ELSE s

RECURSIVE rstrip(_)
rstrip(s) ==
    IF s # <<>> /\ s[Len(s)] \in Whitespace
    THEN rstrip(SubSeq(s, 1, Len(s) - 1))
    ELSE s

\* str.strip()
strip(s) == rstrip(lstrip(s))

\* sep.join(items)
RECURSIVE join(_, _)
join(sep, items) ==
    IF items = <<>> THEN <<>>
    ELSE IF Len(items) = 1 THEN items[1]
    ELSE items[1] \o sep \o join(sep, Tail(items))

Min(a, b) == IF a <= b THEN a ELSE b


Nil == [nil |-> TRUE]

---------------------------------------------------------------------------
(* models/schemas.py: request validation.  A raw request is a record with  *)
(* the set `present` of the fields the body carries.  A field validates to *)
(* [ok, value]; pydantic checks the Field constraints first and then runs  *)
(* the field_validator (mode 'after').                                     *)

validate_content(v) ==
    IF v = <<>> \/ strip(v) = <<>>
    THEN [ok |-> FALSE, value |-> v]
    ELSE [ok |-> TRUE, value |-> strip(v)]

\* Faulty variant (C5 depends on the whitespace test): only the empty
\* title is refused.
validate_title_lenient(v) ==
    IF v = <<>>
    THEN [ok |-> FALSE, value |-> v]
    ELSE [ok |-> TRUE, value |-> strip(v)]

validate_title(v) ==
    IF v = <<>> \/ strip(v) = <<>>
    THEN [ok |-> FALSE, value |-> v]
    ELSE [ok |-> TRUE, value |-> strip(v)]

validate_query(v) ==
    IF v = <<>> \/ strip(v) = <<>>
    THEN [ok |-> FALSE, value |-> v]
    ELSE [ok |-> TRUE, value |-> strip(v)]

\* Faulty variant (C10 depends on the tags being carried through): the
\* tags of the body are not taken over.
NoteCreate_tags_dropped(raw) ==
    LET title == IF "title" \in raw.present
                    /\ Len(raw.title) >= 1 /\ Len(raw.title) <= title_max_length
                 THEN validate_title(raw.title)
                 ELSE [ok |-> FALSE, value |-> <<>>]
        content == IF "content" \in raw.present /\ Len(raw.content) >= 1
                   THEN validate_content(raw.content)
                   ELSE [ok |-> FALSE, value |-> <<>>]
        user_ok == "user_id" \in raw.present /\ Len(raw.user_id) >= 1
    IN  IF title.ok /\ content.ok /\ user_ok
        THEN [ok |-> TRUE,
              value |-> [title |-> title.value, content |-> content.value,
                         user_id |-> raw.user_id, tags |-> <<>>]]
        ELSE [ok |-> FALSE, value |-> Nil]

\* NoteCreate(**body): [ok |-> TRUE, value |-> the model] or [ok |-> FALSE]
NoteCreate(raw) ==
    LET title == IF "title" \in raw.present
                    /\ Len(raw.title) >= 1 /\ Len(raw.title) <= title_max_length
                 THEN validate_title(raw.title)
                 ELSE [ok |-> FALSE, value |-> <<>>]
        content == IF "content" \in raw.present /\ Len(raw.content) >= 1
                   THEN validate_content(raw.content)
                   ELSE [ok |-> FALSE, value |-> <<>>]
        user_ok == "user_id" \in raw.present /\ Len(raw.user_id) >= 1
        tags == IF "tags" \in raw.present THEN raw.tags ELSE <<>>
    IN  IF title.ok /\ content.ok /\ user_ok
        THEN [ok |-> TRUE,
              value |-> [title |-> title.value, content |-> content.value,
                         user_id |-> raw.user_id, tags |-> tags]]
        ELSE [ok |-> FALSE, value |-> Nil]

\* Faulty variant (C14 depends on ge=1, le=50 of limit): any limit is
\* accepted.
SearchQuery_any_limit(raw) ==
    LET query == IF "query" \in raw.present /\ Len(raw.query) >= 1
                 THEN validate_query(raw.query)
                 ELSE [ok |-> FALSE, value |-> <<>>]
        user_ok == "user_id" \in raw.present /\ Len(raw.user_id) >= 1
        limit == IF "limit" \in raw.present THEN raw.limit ELSE limit_default
    IN  IF query.ok /\ user_ok
        THEN [ok |-> TRUE,
              value |-> [query |-> query.value, user_id |-> raw.user_id,
                         limit |-> limit]]
        ELSE [ok |-> FALSE, value |-> Nil]

\* SearchQuery(**body)
SearchQuery(raw) ==
    LET query == IF "query" \in raw.present /\ Len(raw.query) >= 1
                 THEN validate_query(raw.query)
                 ELSE [ok |-> FALSE, value |-> <<>>]
        user_ok == "user_id" \in raw.present /\ Len(raw.user_id) >= 1
        limit == IF "limit" \in raw.present THEN raw.limit ELSE limit_default
        limit_ok == limit >= limit_ge /\ limit <= limit_le
    IN  IF query.ok /\ user_ok /\ limit_ok
        THEN [ok |-> TRUE,
              value |-> [query |-> query.value, user_id |-> raw.user_id,
                         limit |-> limit]]
        ELSE [ok |-> FALSE, value |-> Nil]

\* NoteResponse(**doc): the declared fields only; anything else in the
\* document (embedding, score) is ignored.
NoteResponse(doc) ==
    [id |-> doc._id, title |-> doc.title, content |-> doc.content,
     user_id |-> doc.user_id, tags |-> doc.tags,
     created_at |-> doc.created_at, updated_at |-> doc.updated_at]

---------------------------------------------------------------------------
(* services/gemini_service.py.  `outcome` is what genai.embed_content did: *)
(* [raised |-> TRUE] or [raised |-> FALSE, embedding |-> e].  A service    *)
(* call yields [ok |-> TRUE, value |-> v] or [ok |-> FALSE, exc |-> x],    *)
(* an exception being [type, msg] with msg the chain of message prefixes.  *)

Raise(type, msg) == [ok |-> FALSE, exc |-> [type |-> type, msg |-> msg], value |-> Nil]
Return(v) == [ok |-> TRUE, exc |-> Nil, value |-> v]

len(e) == e.dims

\* Faulty variant (C3 depends on the length test): the vector is returned
\* unchecked.
check_dimensions_unchecked(outcome) ==
    IF outcome.raised
    THEN Raise("ProviderError", <<"provider">>)
    ELSE Return(outcome.embedding)

\* the try body of generate_embedding / generate_query_embedding
check_dimensions(outcome) ==
    IF outcome.raised
    THEN Raise("ProviderError", <<"provider">>)
    ELSE IF len(outcome.embedding) # gemini_embedding_dimensions
         THEN Raise("ValueError", <<"Expected dimensions">>)
         ELSE Return(outcome.embedding)

\* Faulty variant (C4 depends on the failure being raised): a zero vector
\* stands in for a failed embedding.
generate_embedding_fallback(outcome) ==
    LET r == check_dimensions_unchecked(outcome)
    IN  IF r.ok /\ len(r.value) = gemini_embedding_dimensions THEN r
        ELSE Return([dims |-> gemini_embedding_dimensions, vec |-> 0])

generate_embedding(outcome) ==
    LET r == check_dimensions(outcome)
    IN  IF r.ok THEN r
        ELSE Raise("Exception", <<"Failed to generate embedding">> \o r.exc.msg)

\* Faulty variant (C25 depends on the test of tags): the Tags line is
\* appended whether or not there are tags.
combined_text_tags_always(title, content, tags) ==
    title \o <<"\n", "\n">> \o content
          \o <<"\n", "\n", "T", "a", "g", "s", ":", " ">>
          \o join(<<",", " ">>, tags)

\* combined_text of generate_note_embedding
combined_text(title, content, tags) ==
    LET base == title \o <<"\n", "\n">> \o content
    IN  IF tags # <<>>
        THEN base \o <<"\n", "\n", "T", "a", "g", "s", ":", " ">>
                  \o join(<<",", " ">>, tags)
        ELSE base

generate_note_embedding(outcome) == generate_embedding(outcome)

\* Faulty variant (C23 depends on the length test of the query embedding):
\* whatever vector the provider returns is passed on.
generate_query_embedding_unchecked(outcome) ==
    IF outcome.raised
    THEN Raise("Exception", <<"Failed to generate query embedding", "provider">>)
    ELSE Return(outcome.embedding)

generate_query_embedding(outcome) ==
    LET r == check_dimensions(outcome)
    IN  IF r.ok THEN r
        ELSE Raise("Exception", <<"Failed to generate query embedding">> \o r.exc.msg)

---------------------------------------------------------------------------
(* services/mongodb_service.py.  The collection is a sequence of documents *)
(* in insertion order.  An ObjectId is [oid |-> n]; its str() is the       *)
(* distinct value [hex |-> n], and ObjectId(s) parses it back.             *)

str_oid(o) == [hex |-> o.oid]
ObjectId(s) == [oid |-> s.hex]

\* Faulty variant (C9 depends on the one reading of the clock): updated_at
\* comes from a second, later reading.
note_doc_two_readings(title, content, user_id, tags, embedding, now) ==
    [title |-> title, content |-> content, user_id |-> user_id,
     tags |-> tags, embedding |-> embedding,
     created_at |-> now, updated_at |-> now + 1]

\* note_doc of MongoDBService.create_note
note_doc(title, content, user_id, tags, embedding, now) ==
    [title |-> title, content |-> content, user_id |-> user_id,
     tags |-> tags, embedding |-> embedding,
     created_at |-> now, updated_at |-> now]

\* Faulty variant (C22 depends on insert_one only adding): the document
\* takes the place of the one stored last.
insert_one_replacing(coll, doc, oid) ==
    SubSeq(coll, 1, Len(coll) - 1) \o
        <<[_id |-> oid, title |-> doc.title, content |-> doc.content,
           user_id |-> doc.user_id, tags |-> doc.tags,
           embedding |-> doc.embedding,
           created_at |-> doc.created_at, updated_at |-> doc.updated_at]>>

\* collection.insert_one(doc): the driver adds _id
insert_one(coll, doc, oid) ==
    Append(coll,
           [_id |-> oid, title |-> doc.title, content |-> doc.content,
            user_id |-> doc.user_id, tags |-> doc.tags,
            embedding |-> doc.embedding,
            created_at |-> doc.created_at, updated_at |-> doc.updated_at])

\* Faulty variant (C21 depends on the lookup by the inserted id): the note
\* inserted last is read back, whoever inserted it.
find_one_latest(coll, oid) ==
    IF coll # <<>> THEN coll[Len(coll)] ELSE Nil

\* collection.find_one({"_id": oid})
find_one(coll, oid) ==
    IF \E i \in DOMAIN coll : coll[i]._id = oid
    THEN coll[CHOOSE i \in DOMAIN coll : coll[i]._id = oid]
    ELSE Nil

\* get_note's try body, given what find_one returned
get_note(found) ==
    IF found # Nil
    THEN [_id |-> str_oid(found._id), title |-> found.title,
          content |-> found.content, user_id |-> found.user_id,
          tags |-> found.tags, embedding |-> found.embedding,
          created_at |-> found.created_at, updated_at |-> found.updated_at]
    ELSE Nil

\* the except clause of get_note: the error is logged, None is returned
get_note_except(exc) == Nil

\* vectorSearchScore: a similarity measure, larger is closer
Score(q, e) == IF q.vec = e.vec THEN 2 ELSE 1

\* all orderings of the index set S
Orderings(S) ==
    {f \in [1..Cardinality(S) -> S] : \A i, j \in DOMAIN f : i # j => f[i] # f[j]}

\* Faulty variant (C1 depends on the filter): the stage without its filter.
VectorSearchStage_unfiltered(coll, queryVector, numCandidates, limit, user_id) ==
    LET F == DOMAIN coll
        k == Min(Min(limit, numCandidates), Cardinality(F))
        sc(i) == Score(queryVector, coll[i].embedding)
    IN  {[n \in 1..k |->
            [doc |-> coll[f[n]], score |-> sc(f[n])]] :
         f \in {g \in Orderings(F) :
                  \A a, b \in DOMAIN g : a < b => sc(g[a]) >= sc(g[b])}}

\* The $vectorSearch stage: among the documents that satisfy the filter,
\* the min(limit, numCandidates) closest to queryVector, closest first.
\* The store decides the order of equal scores: every admissible answer.
VectorSearchStage(coll, queryVector, numCandidates, limit, user_id) ==
    LET F == {i \in DOMAIN coll : coll[i].user_id = user_id}
        k == Min(Min(limit, numCandidates), Cardinality(F))
        sc(i) == Score(queryVector, coll[i].embedding)
    IN  {[n \in 1..k |->
            [doc |-> coll[f[n]], score |-> sc(f[n])]] :
         f \in {g \in Orderings(F) :
                  \A a, b \in DOMAIN g : a < b => sc(g[a]) >= sc(g[b])}}

\* The $project stage
ProjectStage(rows) ==
    [n \in DOMAIN rows |->
        [_id |-> rows[n].doc._id, title |-> rows[n].doc.title,
         content |-> rows[n].doc.content, user_id |-> rows[n].doc.user_id,
         tags |-> rows[n].doc.tags, created_at |-> rows[n].doc.created_at,
         updated_at |-> rows[n].doc.updated_at, score |-> rows[n].score]]

\* cursor.to_list(length)
to_list(rows, length) == SubSeq(rows, 1, Min(Len(rows), length))

\* cursor.to_list(length) raises ValueError for a negative length, before
\* anything is sent to the store
to_list_check(length) ==
    IF length < 0
    THEN Raise("ValueError", <<"length must be non-negative">>)
    ELSE Return(length)

\* cursor.limit(limit): how many of `available` documents the cursor
\* yields; a limit of 0 is no limit, a negative one counts as its size
cursor_limit(limit, available) ==
    IF limit = 0 THEN available
    ELSE Min(IF limit < 0 THEN 0 - limit ELSE limit, available)

\* "Convert ObjectId to string"
ids_to_str(rows) ==
    [n \in DOMAIN rows |-> [rows[n] EXCEPT !._id = str_oid(rows[n]._id)]]

\* Faulty variant (C2 depends on the filter being inside the stage): the
\* stage runs unfiltered and the rows of other users are removed afterwards.
vector_search_cursor_postfilter(coll, query_embedding, user_id, limit) ==
    {SelectSeq(to_list(ProjectStage(rows), limit), LAMBDA x : x.user_id = user_id) :
        rows \in VectorSearchStage_unfiltered(coll, query_embedding,
                                              vector_search_num_candidates,
                                              limit, user_id)}

\* Faulty variant (C6 depends on the limit being passed on): the candidate
\* pool size is used where the limit belongs.
vector_search_cursor_unlimited(coll, query_embedding, user_id, limit) ==
    {to_list(ProjectStage(rows), vector_search_num_candidates) :
        rows \in VectorSearchStage(coll, query_embedding,
                                   vector_search_num_candidates,
                                   vector_search_num_candidates, user_id)}

\* What the aggregate cursor of vector_search can yield
vector_search_cursor(coll, query_embedding, user_id, limit) ==
    {to_list(ProjectStage(rows), limit) :
        rows \in VectorSearchStage(coll, query_embedding,
                                   vector_search_num_candidates, limit, user_id)}

\* MongoDBService.vector_search: the lists it can return
vector_search(coll, query_embedding, user_id, limit) ==
    {ids_to_str(rows) :
        rows \in vector_search_cursor(coll, query_embedding, user_id, limit)}

\* what connect() can do: the client is built and the ping succeeds; the
\* client is built and the ping fails; building the client fails
ConnectOutcomes == {"connected", "ping_failed", "client_failed"}

\* the collection handle of the service
AsyncIOMotorCollection == [collection |-> "notes"]

\* MongoDBService.connect: self.collection is assigned before the ping, and
\* stays None when AsyncIOMotorClient(...) raises
connect(outcome) ==
    IF outcome = "client_failed" THEN Nil ELSE AsyncIOMotorCollection

\* self.collection.<method>(...) on a collection that is None
AttributeError == [type |-> "AttributeError", msg |-> <<"NoneType">>]

\* what a failing store call raises
PyMongoError == [type |-> "PyMongoError", msg |-> <<"store">>]

\* Faulty variant (C13 depends on vector_search re-raising): the failure is
\* logged and an empty list is returned.
vector_search_except_swallowed(exc) == Return(<<>>)

\* the except clause of vector_search
vector_search_except(exc) ==
    Raise("Exception", <<"Vector search failed">> \o exc.msg)

\* Faulty variant (C12 depends on the user_id filter of find): every note
\* of the collection is listed.
list_cursor_unfiltered(coll, user_id, limit) ==
    LET F == DOMAIN coll
    IN  {[n \in 1..cursor_limit(limit, Cardinality(F)) |->
            [_id |-> coll[f[n]]._id, title |-> coll[f[n]].title,
             content |-> coll[f[n]].content, user_id |-> coll[f[n]].user_id,
             tags |-> coll[f[n]].tags, created_at |-> coll[f[n]].created_at,
             updated_at |-> coll[f[n]].updated_at]] :
         f \in {g \in Orderings(F) :
                  \A a, b \in DOMAIN g :
                     a < b => coll[g[a]].updated_at >= coll[g[b]].updated_at}}

\* find({"user_id": u}, {"embedding": 0}).sort("updated_at", -1).limit(limit):
\* the store decides the order of equal updated_at
list_cursor(coll, user_id, limit) ==
    LET F == {i \in DOMAIN coll : coll[i].user_id = user_id}
    IN  {[n \in 1..cursor_limit(limit, Cardinality(F)) |->
            [_id |-> coll[f[n]]._id, title |-> coll[f[n]].title,
             content |-> coll[f[n]].content, user_id |-> coll[f[n]].user_id,
             tags |-> coll[f[n]].tags, created_at |-> coll[f[n]].created_at,
             updated_at |-> coll[f[n]].updated_at]] :
         f \in {g \in Orderings(F) :
                  \A a, b \in DOMAIN g :
                     a < b => coll[g[a]].updated_at >= coll[g[b]].updated_at}}

\* MongoDBService.list_notes: the lists it can return
list_notes(coll, user_id, limit) ==
    {ids_to_str(to_list(rows, limit)) : rows \in list_cursor(coll, user_id, limit)}

---------------------------------------------------------------------------
(* routes/notes.py: what the handlers build *)

Response(status, detail, body) == [status |-> status, detail |-> detail, body |-> body]

NoResponse == Response(0, <<>>, Nil)

\* FastAPI answers a body that fails its model before the handler runs
RequestValidationError == Response(HTTP_422_UNPROCESSABLE_ENTITY, <<"validation">>, Nil)

\* the except clauses of create_note
create_note_except(exc) ==
    IF exc.type = "ValueError"
    THEN Response(HTTP_422_UNPROCESSABLE_ENTITY, exc.msg, Nil)
    ELSE Response(HTTP_500_INTERNAL_SERVER_ERROR,
                  <<"Failed to create note">> \o exc.msg, Nil)

\* the except clauses of search_notes
search_notes_except(exc) ==
    IF exc.type = "ValueError"
    THEN Response(HTTP_422_UNPROCESSABLE_ENTITY, exc.msg, Nil)
    ELSE Response(HTTP_500_INTERNAL_SERVER_ERROR,
                  <<"Search failed">> \o exc.msg, Nil)

\* the except clause of list_user_notes
list_user_notes_except(exc) ==
    Response(HTTP_500_INTERNAL_SERVER_ERROR,
             <<"Failed to list notes">> \o exc.msg, Nil)

\* create_note, after the read-back
create_note_result(created_note) ==
    IF created_note = Nil
    THEN create_note_except([type |-> "HTTPException",
                             msg |-> <<"500", "Failed to retrieve created note">>])
    ELSE Response(HTTP_201_CREATED, <<>>, NoteResponse(created_note))

\* Faulty variant (C7 depends on the order being kept): the results are
\* listed in reverse.
search_results_reversed(results) ==
    [n \in DOMAIN results |->
        [note |-> NoteResponse(results[Len(results) + 1 - n]),
         score |-> results[Len(results) + 1 - n].score]]

\* "Format results" of search_notes
search_results(results) ==
    [n \in DOMAIN results |->
        [note |-> NoteResponse(results[n]), score |-> results[n].score]]

\* SearchResponse(...)
SearchResponse(results, query, search_time_ms) ==
    Response(HTTP_200_OK, <<>>,
             [results |-> search_results(results), query |-> query,
              count |-> Len(search_results(results)),
              search_time_ms |-> search_time_ms])

\* search_notes after db.vector_search: the response, or the except clauses
search_notes_return(v, query, search_time_ms) ==
    IF v.ok
    THEN SearchResponse(v.value, query, search_time_ms)
    ELSE search_notes_except(v.exc)

\* Faulty variant (C26 depends on the two readings of the clock): the
\* field is left at the default of SearchResponse.
search_time_ms_default(start_time, end_time) == 0

\* "(time.time() - start_time) * 1000"
search_time_ms(start_time, end_time) == (end_time - start_time) * 1000

\* the list comprehension of list_user_notes
list_user_notes_result(notes) ==
    Response(HTTP_200_OK, <<>>, [n \in DOMAIN notes |-> NoteResponse(notes[n])])

\* request.get(key, "") of suggest_tags
dict_get(request, key) == IF key \in request.present THEN request[key] ELSE <<>>

\* the test at the head of suggest_tags: "if not title and not content:
\* raise HTTPException(400, ...)"
suggest_tags_check(title, content) ==
    IF title = <<>> /\ content = <<>>
    THEN Raise("HTTPException", <<"400", "Title or content is required">>)
    ELSE Return([title |-> title, content |-> content])

\* the suggestions of the except clause of suggest_tags
FallbackSuggestions == <<"notes", "ideas">>

\* suggest_tags returns a dict: 200, whichever way it returns
suggest_tags_return(suggestions) ==
    Response(HTTP_200_OK, <<>>, [suggestions |-> suggestions])

\* the except clause of suggest_tags: "Return fallback suggestions instead
\* of failing"
suggest_tags_except(exc) == suggest_tags_return(FallbackSuggestions)

\* bool(settings.gemini_api_key): the key is a required setting
gemini_configured == TRUE

\* Faulty variant (C29 depends on the status following the connection):
\* the status does not look at the connection.
HealthResponse_healthy(mongodb_connected) ==
    Response(HTTP_200_OK, <<>>,
             [status |-> "healthy",
              mongodb_connected |-> mongodb_connected,
              openai_configured |-> gemini_configured])

\* HealthResponse(...) of health_check
HealthResponse(mongodb_connected) ==
    Response(HTTP_200_OK, <<>>,
             [status |-> IF mongodb_connected /\ gemini_configured
                         THEN "healthy" ELSE "degraded",
              mongodb_connected |-> mongodb_connected,
              openai_configured |-> gemini_configured])

---------------------------------------------------------------------------
(* Inputs *)

All == {"title", "content", "user_id", "tags"}

Body(present, title, content, user_id, tags) ==
    [present |-> present, title |-> title, content |-> content,
     user_id |-> user_id, tags |-> tags]

ValidBodies ==
    { Body(All, <<" ", "a">>, <<"c", " ">>, <<"u">>, << <<"y">>, <<"x">> >>),
      Body(All \ {"tags"}, <<"a">>, <<"c">>, <<"v">>, <<>>) }

InvalidBodies ==
    { Body(All, <<>>, <<"c">>, <<"u">>, <<>>),
      Body(All, <<" ">>, <<"c">>, <<"u">>, <<>>),
      Body(All, <<"a">>, <<>>, <<"u">>, <<>>),
      Body(All, <<"a">>, <<"\t", " ">>, <<"u">>, <<>>),
      Body(All, <<" ">>, <<" ">>, <<"u">>, <<>>),
      Body(All, <<"a">>, <<"c">>, <<>>, <<>>),
      Body(All \ {"user_id"}, <<"a">>, <<"c">>, <<>>, <<>>) }

CreateBodies == ValidBodies \cup InvalidBodies

SAll == {"query", "user_id", "limit"}

Query(present, query, user_id, limit) ==
    [present |-> present, query |-> query, user_id |-> user_id, limit |-> limit]

ValidQueries ==
    { Query(SAll, <<" ", "q">>, <<"u">>, 1),
      Query(SAll \ {"limit"}, <<"q">>, <<"v">>, 0) }

InvalidQueries ==
    { Query(SAll, <<>>, <<"u">>, 1),
      Query(SAll, <<" ">>, <<"u">>, 1),
      Query(SAll, <<"q">>, <<>>, 1),
      Query(SAll \ {"user_id"}, <<"q">>, <<>>, 1),
      Query(SAll, <<"q">>, <<"u">>, 0),
      Query(SAll, <<"q">>, <<"u">>, -1),
      Query(SAll, <<"q">>, <<"u">>, 51) }

SearchBodies == ValidQueries \cup InvalidQueries

ListParams ==
    { [user_id |-> <<"u">>, limit |-> 1],
      [user_id |-> <<"v">>, limit |-> list_limit_default],
      [user_id |-> <<"u">>, limit |-> 0],
      [user_id |-> <<"u">>, limit |-> -1] }

\* bodies of POST /api/suggest-tags: an empty dict, empty strings, a title
SuggestBodies ==
    { [present |-> {}, title |-> <<>>, content |-> <<>>],
      [present |-> {"title", "content"}, title |-> <<>>, content |-> <<>>],
      [present |-> {"title"}, title |-> <<"a">>, content |-> <<>>] }

\* what model.generate_content and the parsing of its text can do
SuggestOutcomes ==
    { [raised |-> TRUE, suggestions |-> <<>>],
      [raised |-> FALSE, suggestions |-> <<"x", "y", "z">>] }

Embedding(dims, vec) == [dims |-> dims, vec |-> vec]

\* what genai.embed_content can do
ProviderOutcomes ==
    { [raised |-> TRUE, embedding |-> Nil] } \cup
    { [raised |-> FALSE, embedding |-> Embedding(d, v)] :
        d \in {gemini_embedding_dimensions}, v \in {0, 1} } \cup
    { [raised |-> FALSE, embedding |-> Embedding(d, 0)] :
        d \in {gemini_embedding_dimensions - 1, gemini_embedding_dimensions + 1} }

---------------------------------------------------------------------------
(* State machine *)

NoLoc ==
    [note |-> Nil,          \* create_note: the validated NoteCreate
     query |-> Nil,         \* search_notes: the validated SearchQuery
     params |-> Nil,        \* list_user_notes: user_id, limit
     provided |-> Nil,      \* what genai.embed_content did
     embedding |-> Nil,     \* embedding / query_embedding
     doc |-> Nil,           \* note_doc
     note_id |-> Nil,
     created_note |-> Nil,
     answer |-> "unset",    \* how the store answered the last call made
     cursor |-> <<>>,       \* the rows the store's cursor yielded
     results |-> <<>>,      \* results / notes
     start_time |-> -1]     \* -1: not read yet

Init ==
    /\ lifespan = "startup"
    /\ collection = Nil
    /\ store = <<>>
    /\ nextOid = 1
    /\ loop = "none"
    /\ pc = [r \in Slots |-> "idle"]
    /\ kind = [r \in Slots |-> "none"]
    /\ req = [r \in Slots |-> Nil]
    /\ loc = [r \in Slots |-> NoLoc]
    /\ resp = [r \in Slots |-> NoResponse]
    /\ log = [r \in Slots |-> <<>>]

\* create requests that may still insert, plus the notes stored
Admitted ==
    Len(store) + Cardinality({r \in Slots : pc[r] \in {"embedding", "inserting"}})

\* a handler runs on the event loop: not while another one blocks it, and
\* a response that has been made is sent before anything else happens
Runnable(r) ==
    /\ loop = "none" \/ loop = r
    /\ \A s \in Slots : pc[s] # "done"

\* a new request is taken by the first free slot (the slots are
\* interchangeable)
Free(r) ==
    /\ lifespan = "serving"
    /\ pc[r] = "idle"
    /\ \A s \in Slots : pc[s] = "idle" => ~Before(s, r)

\* The clock readings still held somewhere: by a stored note, by a note_doc
\* about to be inserted, by the start_time of a search under way
Readings ==
    {0} \cup {store[i].created_at : i \in DOMAIN store}
        \cup {loc[r].doc.created_at : r \in {s \in Slots : pc[s] = "inserting"}}
        \cup {loc[r].start_time :
                 r \in {s \in Slots : kind[s] = "search" /\ loc[s].start_time >= 0}}

Latest == CHOOSE t \in Readings : \A u \in Readings : u <= t

\* datetime.utcnow() / time.time(): the clock does not run backwards; it
\* reads as the latest reading held, or later
Now == {t \in {Latest, Latest + 1} : t <= MaxClock}

\* Requests that only read (search, list) do not affect one another: one
\* of them at a time is under way, beside the create requests
NoReader == \A s \in Slots : kind[s] \notin {"search", "list", "suggest", "health"}

\* A body that fails its model is answered from the body alone, whatever
\* else is under way: such a request is taken while no other is under way
Quiet == \A s \in Slots : pc[s] = "idle"

EmbedCall(task_type, content) ==
    [call |-> "embed_content", task_type |-> task_type, content |-> content]

StoreCall(name) == [call |-> name, task_type |-> "", content |-> <<>>]

\* genai.embed_content(...) of generate_embedding
document_embed_call(text) == EmbedCall("retrieval_document", text)

\* Faulty variant (C18 depends on the query mode): the query is embedded
\* the way documents are.
query_embed_call_document(query) == EmbedCall("retrieval_document", query)

\* genai.embed_content(...) of generate_query_embedding
query_embed_call(query) == EmbedCall("retrieval_query", query)

\* collection.aggregate(pipeline): the $vectorSearch stage as sent
AggregateCall(numCandidates, limit, user_id) ==
    [call |-> "aggregate", task_type |-> "", content |-> <<>>,
     numCandidates |-> numCandidates, limit |-> limit, filter |-> user_id]

\* Faulty variant (C24 depends on the configured pool size): the pool is
\* as large as the limit asked for.
vector_search_pipeline_pool_of_limit(limit, user_id) ==
    AggregateCall(limit, limit, user_id)

\* the pipeline vector_search builds
vector_search_pipeline(limit, user_id) ==
    AggregateCall(vector_search_num_candidates, limit, user_id)

\* The startup half of lifespan: connect() is awaited, a failure is logged
\* and the application starts serving either way
Lifespan(outcome) ==
    /\ lifespan = "startup"
    /\ lifespan' = "serving"
    /\ collection' = connect(outcome)
    /\ UNCHANGED <<store, nextOid, loop, pc, kind, req, loc, resp, log>>

\* POST /api/notes arrives: validation, then create_note up to embed_content
CreateStart(r, body) ==
    /\ Free(r) /\ Runnable(r)
    /\ kind' = [kind EXCEPT ![r] = "create"]
    /\ req' = [req EXCEPT ![r] = body]
    /\ LET note == NoteCreate(body)
       IN  IF note.ok
           THEN /\ Admitted < MaxNotes
                /\ loc' = [loc EXCEPT ![r] = [NoLoc EXCEPT !.note = note.value]]
                /\ log' = [log EXCEPT ![r] =
                       <<document_embed_call(
                             combined_text(note.value.title, note.value.content,
                                           note.value.tags))>>]
                /\ pc' = [pc EXCEPT ![r] = "embedding"]
                /\ loop' = r
                /\ UNCHANGED resp
           ELSE /\ Quiet
                /\ resp' = [resp EXCEPT ![r] = RequestValidationError]
                /\ pc' = [pc EXCEPT ![r] = "done"]
                /\ UNCHANGED <<loc, log, loop>>
    /\ UNCHANGED <<lifespan, collection, store, nextOid>>

\* Faulty variant (C17 depends on a failure ending the request): a failed
\* embedding is attempted once more.
CreateEmbedded_retry(r, outcome) ==
    /\ pc[r] = "embedding" /\ kind[r] = "create" /\ Runnable(r)
    /\ LET e == generate_note_embedding(outcome)
           n == loc[r].note
       IN  IF e.ok /\ collection # Nil
           THEN /\ \E now \in Now :
                     loc' = [loc EXCEPT ![r].provided = outcome,
                                        ![r].embedding = e.value,
                                        ![r].doc = note_doc(n.title, n.content,
                                                            n.user_id, n.tags,
                                                            e.value, now)]
                /\ log' = [log EXCEPT ![r] = Append(@, StoreCall("insert_one"))]
                /\ pc' = [pc EXCEPT ![r] = "inserting"]
                /\ loop' = "none"
                /\ UNCHANGED resp
           ELSE IF ~e.ok /\ Len(log[r]) = 1
           THEN /\ log' = [log EXCEPT ![r] = Append(@, log[r][1])]
                /\ UNCHANGED <<loc, resp, pc, loop>>
           ELSE /\ loc' = [loc EXCEPT ![r].provided = outcome,
                                      ![r].embedding = e.value]
                /\ resp' = [resp EXCEPT ![r] =
                       create_note_except(IF e.ok THEN AttributeError ELSE e.exc)]
                /\ pc' = [pc EXCEPT ![r] = "done"]
                /\ loop' = "none"
                /\ UNCHANGED log
    /\ UNCHANGED <<lifespan, collection, store, nextOid, kind, req>>

\* embed_content returns or raises; on success db.create_note runs up to
\* the await of insert_one (which is an AttributeError on a collection
\* that is None)
CreateEmbedded(r, outcome) ==
    /\ pc[r] = "embedding" /\ kind[r] = "create" /\ Runnable(r)
    /\ loop' = "none"
    /\ LET e == generate_note_embedding(outcome)
           n == loc[r].note
       IN  IF e.ok /\ collection # Nil
           THEN /\ \E now \in Now :
                     loc' = [loc EXCEPT ![r].provided = outcome,
                                        ![r].embedding = e.value,
                                        ![r].doc = note_doc(n.title, n.content,
                                                            n.user_id, n.tags,
                                                            e.value, now)]
                /\ log' = [log EXCEPT ![r] = Append(@, StoreCall("insert_one"))]
                /\ pc' = [pc EXCEPT ![r] = "inserting"]
                /\ UNCHANGED resp
           ELSE /\ loc' = [loc EXCEPT ![r].provided = outcome,
                                      ![r].embedding = e.value]
                /\ resp' = [resp EXCEPT ![r] =
                       create_note_except(IF e.ok THEN AttributeError ELSE e.exc)]
                /\ pc' = [pc EXCEPT ![r] = "done"]
                /\ UNCHANGED log
    /\ UNCHANGED <<lifespan, collection, store, nextOid, kind, req>>

\* insert_one completes; create_note goes on to db.get_note
CreateInserted(r, ok) ==
    /\ pc[r] = "inserting" /\ Runnable(r)
    /\ IF ok
       THEN /\ store' = insert_one(store, loc[r].doc, [oid |-> nextOid])
            /\ nextOid' = nextOid + 1
            /\ loc' = [loc EXCEPT ![r].note_id = str_oid([oid |-> nextOid]),
                                  ![r].answer = "ok"]
            /\ log' = [log EXCEPT ![r] = Append(@, StoreCall("find_one"))]
            /\ pc' = [pc EXCEPT ![r] = "reading"]
            /\ UNCHANGED resp
       ELSE /\ loc' = [loc EXCEPT ![r].answer = "raised"]
            /\ resp' = [resp EXCEPT ![r] = create_note_except(PyMongoError)]
            /\ pc' = [pc EXCEPT ![r] = "done"]
            /\ UNCHANGED <<store, nextOid, log>>
    /\ UNCHANGED <<lifespan, collection, loop, kind, req>>

\* find_one completes ("ok": the store answers the lookup; "none": it
\* answers with nothing; "raised": it fails, and get_note returns None)
CreateRead(r, answer) ==
    /\ pc[r] = "reading" /\ Runnable(r)
    /\ LET found == IF answer = "ok"
                    THEN find_one(store, ObjectId(loc[r].note_id))
                    ELSE Nil
           created_note == IF answer = "raised"
                           THEN get_note_except(PyMongoError)
                           ELSE get_note(found)
       IN  /\ loc' = [loc EXCEPT ![r].created_note = created_note,
                                 ![r].answer = answer]
           /\ resp' = [resp EXCEPT ![r] = create_note_result(created_note)]
    /\ pc' = [pc EXCEPT ![r] = "done"]
    /\ UNCHANGED <<lifespan, collection, store, nextOid, loop, kind, req, log>>

\* POST /api/search arrives: validation, then search_notes up to embed_content
SearchStart(r, body) ==
    /\ Free(r) /\ Runnable(r) /\ NoReader
    /\ kind' = [kind EXCEPT ![r] = "search"]
    /\ req' = [req EXCEPT ![r] = body]
    /\ LET query == SearchQuery(body)
       IN  IF query.ok
           THEN /\ \E start_time \in Now :
                     loc' = [loc EXCEPT ![r] = [NoLoc EXCEPT !.query = query.value,
                                                            !.start_time = start_time]]
                /\ log' = [log EXCEPT ![r] = <<query_embed_call(query.value.query)>>]
                /\ pc' = [pc EXCEPT ![r] = "q_embedding"]
                /\ loop' = r
                /\ UNCHANGED resp
           ELSE /\ Quiet
                /\ resp' = [resp EXCEPT ![r] = RequestValidationError]
                /\ pc' = [pc EXCEPT ![r] = "done"]
                /\ UNCHANGED <<loc, log, loop>>
    /\ UNCHANGED <<lifespan, collection, store, nextOid>>

\* embed_content returns or raises; on success db.vector_search runs up to
\* the await of the cursor (on a collection that is None, aggregate is an
\* AttributeError inside the try of vector_search)
SearchEmbedded(r, outcome) ==
    /\ pc[r] = "q_embedding" /\ kind[r] = "search" /\ Runnable(r)
    /\ loop' = "none"
    /\ LET e == generate_query_embedding(outcome)
           q == loc[r].query
       IN  IF e.ok /\ collection # Nil
           THEN /\ loc' = [loc EXCEPT ![r].provided = outcome,
                                      ![r].embedding = e.value]
                /\ log' = [log EXCEPT ![r] =
                       Append(@, vector_search_pipeline(q.limit, q.user_id))]
                /\ pc' = [pc EXCEPT ![r] = "searching"]
                /\ UNCHANGED resp
           ELSE /\ LET v == IF e.ok THEN vector_search_except(AttributeError) ELSE e
                   IN  /\ loc' = [loc EXCEPT ![r].provided = outcome,
                                             ![r].embedding = e.value,
                                             ![r].results = IF v.ok THEN v.value ELSE <<>>]
                       /\ \E end_time \in Now :
                            resp' = [resp EXCEPT ![r] =
                                search_notes_return(v, q.query,
                                                    search_time_ms(loc[r].start_time, end_time))]
                /\ pc' = [pc EXCEPT ![r] = "done"]
                /\ UNCHANGED log
    /\ UNCHANGED <<lifespan, collection, store, nextOid, kind, req>>

\* the aggregation answers: search_notes formats the results and returns
SearchAnswered(r) ==
    /\ pc[r] = "searching" /\ Runnable(r)
    /\ LET q == loc[r].query
       IN  \E rows \in vector_search_cursor(store, loc[r].embedding, q.user_id, q.limit) :
           \E end_time \in Now :
             LET results == ids_to_str(rows)
             IN  /\ loc' = [loc EXCEPT ![r].cursor = rows, ![r].results = results,
                                       ![r].answer = "ok"]
                 /\ resp' = [resp EXCEPT ![r] =
                        search_notes_return(Return(results), q.query,
                                            search_time_ms(loc[r].start_time, end_time))]
    /\ pc' = [pc EXCEPT ![r] = "done"]
    /\ UNCHANGED <<lifespan, collection, store, nextOid, loop, kind, req, log>>

\* the aggregation fails: the except clause of vector_search, then
\* search_notes goes on with what it gives
SearchFailed(r) ==
    /\ pc[r] = "searching" /\ Runnable(r)
    /\ LET v == vector_search_except(PyMongoError)
       IN  /\ loc' = [loc EXCEPT ![r].results = IF v.ok THEN v.value ELSE <<>>,
                                 ![r].answer = "raised"]
           /\ \E end_time \in Now :
                resp' = [resp EXCEPT ![r] =
                    search_notes_return(v, loc[r].query.query,
                                        search_time_ms(loc[r].start_time, end_time))]
    /\ pc' = [pc EXCEPT ![r] = "done"]
    /\ UNCHANGED <<lifespan, collection, store, nextOid, loop, kind, req, log>>

\* GET /api/notes/{user_id} arrives, with any integer as limit:
\* list_user_notes up to the await of the cursor (on a collection that is
\* None, find is an AttributeError; a negative limit makes to_list raise)
ListStart(r, params) ==
    /\ Free(r) /\ Runnable(r) /\ NoReader
    /\ kind' = [kind EXCEPT ![r] = "list"]
    /\ req' = [req EXCEPT ![r] = params]
    /\ loc' = [loc EXCEPT ![r] = [NoLoc EXCEPT !.params = params]]
    /\ IF collection # Nil /\ to_list_check(params.limit).ok
       THEN /\ log' = [log EXCEPT ![r] = <<StoreCall("find")>>]
            /\ pc' = [pc EXCEPT ![r] = "listing"]
            /\ UNCHANGED resp
       ELSE /\ resp' = [resp EXCEPT ![r] =
                   list_user_notes_except(IF collection = Nil
                                          THEN AttributeError
                                          ELSE to_list_check(params.limit).exc)]
            /\ pc' = [pc EXCEPT ![r] = "done"]
            /\ UNCHANGED log
    /\ UNCHANGED <<lifespan, collection, store, nextOid, loop>>

\* the find cursor answers
ListAnswered(r) ==
    /\ pc[r] = "listing" /\ Runnable(r)
    /\ \E notes \in list_notes(store, loc[r].params.user_id, loc[r].params.limit) :
          /\ loc' = [loc EXCEPT ![r].results = notes, ![r].answer = "ok"]
          /\ resp' = [resp EXCEPT ![r] = list_user_notes_result(notes)]
    /\ pc' = [pc EXCEPT ![r] = "done"]
    /\ UNCHANGED <<lifespan, collection, store, nextOid, loop, kind, req, log>>

\* the find cursor fails
ListFailed(r) ==
    /\ pc[r] = "listing" /\ Runnable(r)
    /\ loc' = [loc EXCEPT ![r].answer = "raised"]
    /\ resp' = [resp EXCEPT ![r] = list_user_notes_except(PyMongoError)]
    /\ pc' = [pc EXCEPT ![r] = "done"]
    /\ UNCHANGED <<lifespan, collection, store, nextOid, loop, kind, req, log>>

\* POST /api/suggest-tags arrives: suggest_tags up to generate_content,
\* which is a synchronous call; the 400 it raises for an empty note is
\* raised inside its try block
SuggestStart(r, request) ==
    /\ Free(r) /\ Runnable(r) /\ NoReader
    /\ kind' = [kind EXCEPT ![r] = "suggest"]
    /\ req' = [req EXCEPT ![r] = request]
    /\ LET checked == suggest_tags_check(dict_get(request, "title"),
                                         dict_get(request, "content"))
       IN  IF checked.ok
           THEN /\ log' = [log EXCEPT ![r] = <<StoreCall("generate_content")>>]
                /\ pc' = [pc EXCEPT ![r] = "suggesting"]
                /\ loop' = r
                /\ UNCHANGED resp
           ELSE /\ Quiet
                /\ resp' = [resp EXCEPT ![r] = suggest_tags_except(checked.exc)]
                /\ pc' = [pc EXCEPT ![r] = "done"]
                /\ UNCHANGED <<log, loop>>
    /\ UNCHANGED <<lifespan, collection, store, nextOid, loc>>

\* generate_content returns a text that parses, or something fails
SuggestAnswered(r, outcome) ==
    /\ pc[r] = "suggesting" /\ Runnable(r)
    /\ loop' = "none"
    /\ resp' = [resp EXCEPT ![r] =
           IF outcome.raised
           THEN suggest_tags_except([type |-> "Exception", msg |-> <<"provider">>])
           ELSE suggest_tags_return(outcome.suggestions)]
    /\ pc' = [pc EXCEPT ![r] = "done"]
    /\ UNCHANGED <<lifespan, collection, store, nextOid, kind, req, loc, log>>

\* GET /health arrives: is_connected pings when there is a client (there
\* is one exactly when there is a collection), else answers False at once
HealthStart(r) ==
    /\ Free(r) /\ Runnable(r) /\ NoReader
    /\ kind' = [kind EXCEPT ![r] = "health"]
    /\ IF collection # Nil
       THEN /\ log' = [log EXCEPT ![r] = <<StoreCall("ping")>>]
            /\ pc' = [pc EXCEPT ![r] = "pinging"]
            /\ UNCHANGED resp
       ELSE /\ resp' = [resp EXCEPT ![r] = HealthResponse(FALSE)]
            /\ pc' = [pc EXCEPT ![r] = "done"]
            /\ UNCHANGED log
    /\ UNCHANGED <<lifespan, collection, store, nextOid, loop, req, loc>>

\* the ping answers, or fails (is_connected then returns False)
HealthAnswered(r, ok) ==
    /\ pc[r] = "pinging" /\ Runnable(r)
    /\ loc' = [loc EXCEPT ![r].answer = IF ok THEN "ok" ELSE "raised"]
    /\ resp' = [resp EXCEPT ![r] = HealthResponse(ok)]
    /\ pc' = [pc EXCEPT ![r] = "done"]
    /\ UNCHANGED <<lifespan, collection, store, nextOid, loop, kind, req, log>>

\* the response has been sent; the slot takes the next request
Finish(r) ==
    /\ pc[r] = "done"
    /\ pc' = [pc EXCEPT ![r] = "idle"]
    /\ kind' = [kind EXCEPT ![r] = "none"]
    /\ req' = [req EXCEPT ![r] = Nil]
    /\ loc' = [loc EXCEPT ![r] = NoLoc]
    /\ resp' = [resp EXCEPT ![r] = NoResponse]
    /\ log' = [log EXCEPT ![r] = <<>>]
    /\ UNCHANGED <<lifespan, collection, store, nextOid, loop>>

\* the steps of the requests
Requests ==
    \/ \E r \in Slots, body \in CreateBodies : CreateStart(r, body)
    \/ \E r \in Slots, outcome \in ProviderOutcomes : CreateEmbedded(r, outcome)
    \/ \E r \in Slots, ok \in BOOLEAN : CreateInserted(r, ok)
    \/ \E r \in Slots, answer \in {"ok", "none", "raised"} : CreateRead(r, answer)
    \/ \E r \in Slots, body \in SearchBodies : SearchStart(r, body)
    \/ \E r \in Slots, outcome \in ProviderOutcomes : SearchEmbedded(r, outcome)
    \/ \E r \in Slots : SearchAnswered(r)
    \/ \E r \in Slots : SearchFailed(r)
    \/ \E r \in Slots, params \in ListParams : ListStart(r, params)
    \/ \E r \in Slots : ListAnswered(r)
    \/ \E r \in Slots : ListFailed(r)
    \/ \E r \in Slots, request \in SuggestBodies : SuggestStart(r, request)
    \/ \E r \in Slots, outcome \in SuggestOutcomes : SuggestAnswered(r, outcome)
    \/ \E r \in Slots : HealthStart(r)
    \/ \E r \in Slots, ok \in BOOLEAN : HealthAnswered(r, ok)
    \/ \E r \in Slots : Finish(r)

Next ==
    \/ \E outcome \in ConnectOutcomes : Lifespan(outcome)
    \/ Requests

Spec == Init /\ [][Next]_vars

\* The runs in which connect() fails at startup
FailedConnects == ConnectOutcomes \ {"connected"}

NextDegraded ==
    \/ \E outcome \in FailedConnects : Lifespan(outcome)
    \/ Requests

DegradedSpec == Init /\ [][NextDegraded]_vars

\* What the event loop guarantees: the startup runs to its yield, and a
\* handler that has made its response gets to send it.  Nothing in the code
\* bounds the wait for embed_content or for an awaited store call, so their
\* completions carry no fairness.
FairSpec ==
    /\ Spec
    /\ WF_vars(\E outcome \in ConnectOutcomes : Lifespan(outcome))
    /\ WF_vars(\E r \in Slots : Finish(r))

---------------------------------------------------------------------------
(* Properties *)

Answered(r, k, status) == kind[r] = k /\ pc[r] = "done" /\ resp[r].status = status

Calls(r) == {log[r][n].call : n \in DOMAIN log[r]}

Owned(user_id) == {i \in DOMAIN store : store[i].user_id = user_id}

\* the limit a search request asks for
AskedLimit(body) == IF "limit" \in body.present THEN body.limit ELSE limit_default

\* Some note of another user is closer to the query of r than the note r
\* got at place n
CloserForeignNote(r, n) ==
    \E i \in DOMAIN store :
        /\ store[i].user_id # req[r].user_id
        /\ Score(loc[r].embedding, store[i].embedding) > resp[r].body.results[n].score

\* C1: a search for user U never returns a note whose user_id differs from
\* U, whatever the other users' notes score.
C1_SearchStaysWithinUser ==
    \A r \in Slots :
        Answered(r, "search", HTTP_200_OK) =>
            \A n \in DOMAIN resp[r].body.results :
                resp[r].body.results[n].note.user_id = req[r].user_id

C1_Witness ==
    \E r \in Slots :
        /\ Answered(r, "search", HTTP_200_OK)
        /\ Len(resp[r].body.results) >= 1
        /\ CloserForeignNote(r, 1)

\* C2: the user filter is part of the similarity search and nothing is
\* filtered afterwards: a user who owns m notes gets min(limit, m) results,
\* however many closer notes other users own.
C2_FilterBeforeLimit ==
    \A r \in Slots :
        Answered(r, "search", HTTP_200_OK) =>
            /\ Len(resp[r].body.results)
                 = Min(AskedLimit(req[r]), Cardinality(Owned(req[r].user_id)))
            /\ Len(resp[r].body.results) = Len(loc[r].cursor)
            /\ resp[r].body.count = Len(resp[r].body.results)

C2_Witness ==
    \E r \in Slots :
        /\ Answered(r, "search", HTTP_200_OK)
        /\ Len(resp[r].body.results) = AskedLimit(req[r])
        /\ Cardinality(Owned(req[r].user_id)) = 1
        /\ CloserForeignNote(r, 1)

\* C3: every stored note has an embedding of the configured length, and a
\* create request whose provider returned a vector of another length fails
\* without a store insert.
C3_StoredDimensions ==
    /\ \A i \in DOMAIN store : len(store[i].embedding) = gemini_embedding_dimensions
    /\ \A r \in Slots :
         (/\ kind[r] = "create"
          /\ loc[r].provided # Nil
          /\ ~loc[r].provided.raised
          /\ len(loc[r].provided.embedding) # gemini_embedding_dimensions)
         => /\ Answered(r, "create", HTTP_500_INTERNAL_SERVER_ERROR)
            /\ "insert_one" \notin Calls(r)

C3_Witness ==
    \E r \in Slots :
        /\ kind[r] = "create" /\ pc[r] = "done"
        /\ loc[r].provided # Nil
        /\ ~loc[r].provided.raised
        /\ len(loc[r].provided.embedding) = gemini_embedding_dimensions + 1
        /\ store # <<>>

\* C4: within a create request the insert is issued only after the
\* embedding call returned a vector, and that vector is the one inserted;
\* when the provider fails the request ends in an error with no insert.
C4_EmbedBeforeInsert ==
    \A r \in Slots :
        kind[r] = "create" =>
            /\ "insert_one" \in Calls(r) =>
                 /\ log[r][1].call = "embed_content"
                 /\ loc[r].provided # Nil
                 /\ ~loc[r].provided.raised
                 /\ loc[r].doc.embedding = loc[r].provided.embedding
            /\ (loc[r].provided # Nil /\ loc[r].provided.raised) =>
                 /\ Answered(r, "create", HTTP_500_INTERNAL_SERVER_ERROR)
                 /\ "insert_one" \notin Calls(r)
            /\ pc[r] \in {"reading", "done"} /\ loc[r].note_id # Nil =>
                 find_one(store, ObjectId(loc[r].note_id)).embedding
                     = loc[r].provided.embedding

C4_Witness ==
    \E r \in Slots :
        /\ kind[r] = "create" /\ pc[r] = "done"
        /\ loc[r].provided # Nil /\ loc[r].provided.raised
        /\ log[r][1].call = "embed_content"

Blank(text) == \A n \in DOMAIN text : text[n] \in Whitespace

\* C5: a create request whose title or content is empty or whitespace-only,
\* or whose user_id is missing, is answered 422 with no embedding call and
\* no store write.
C5_InvalidCreateRejected ==
    \A r \in Slots :
        (/\ kind[r] = "create"
         /\ \/ Blank(req[r].title)
            \/ Blank(req[r].content)
            \/ "user_id" \notin req[r].present)
        => /\ Answered(r, "create", HTTP_422_UNPROCESSABLE_ENTITY)
           /\ log[r] = <<>>
           /\ loc[r] = NoLoc

C5_Witness ==
    \E r \in Slots :
        /\ kind[r] = "create" /\ pc[r] = "done"
        /\ req[r].title # <<>> /\ Blank(req[r].title)
        /\ ~Blank(req[r].content)

\* C6: a search with limit k returns at most k results.
C6_AtMostLimit ==
    \A r \in Slots :
        Answered(r, "search", HTTP_200_OK) =>
            /\ Len(resp[r].body.results) <= AskedLimit(req[r])
            /\ resp[r].body.count <= AskedLimit(req[r])

C6_Witness ==
    \E r \in Slots :
        /\ Answered(r, "search", HTTP_200_OK)
        /\ Len(resp[r].body.results) = AskedLimit(req[r])
        /\ Cardinality(Owned(req[r].user_id)) > AskedLimit(req[r])

\* C7: the search response lists the matches in the order the store
\* returned them, each with the store's score, scores non-increasing; no
\* match is dropped, added or moved.
C7_OrderPreserved ==
    \A r \in Slots :
        Answered(r, "search", HTTP_200_OK) =>
            LET out == resp[r].body.results
                rows == loc[r].cursor
            IN  /\ Len(out) = Len(rows)
                /\ \A n \in DOMAIN out :
                      /\ out[n].note.id = str_oid(rows[n]._id)
                      /\ out[n].score = rows[n].score
                /\ \A a, b \in DOMAIN out : a < b => out[a].score >= out[b].score

C7_Witness ==
    \E r \in Slots :
        /\ Answered(r, "search", HTTP_200_OK)
        /\ Len(resp[r].body.results) = 2
        /\ resp[r].body.results[1].score > resp[r].body.results[2].score

\* C8: the create-note response carries an embedding of length D.
C8_ResponseCarriesEmbedding ==
    \A r \in Slots :
        Answered(r, "create", HTTP_201_CREATED) =>
            /\ "embedding" \in DOMAIN resp[r].body
            /\ len(resp[r].body.embedding) = gemini_embedding_dimensions

\* C9: every stored note and every note returned by create-note, search or
\* list has created_at equal to updated_at.
C9_CreatedEqualsUpdated ==
    /\ \A i \in DOMAIN store : store[i].created_at = store[i].updated_at
    /\ \A r \in Slots :
         /\ Answered(r, "create", HTTP_201_CREATED) =>
              resp[r].body.created_at = resp[r].body.updated_at
         /\ Answered(r, "search", HTTP_200_OK) =>
              \A n \in DOMAIN resp[r].body.results :
                  resp[r].body.results[n].note.created_at
                      = resp[r].body.results[n].note.updated_at
         /\ Answered(r, "list", HTTP_200_OK) =>
              \A n \in DOMAIN resp[r].body :
                  resp[r].body[n].created_at = resp[r].body[n].updated_at

C9_Witness ==
    \E r \in Slots :
        /\ Answered(r, "list", HTTP_200_OK)
        /\ Len(resp[r].body) >= 2
        /\ resp[r].body[1].created_at > resp[r].body[2].created_at

\* the note a created response names, fetched by that id
Fetched(r) == get_note(find_one(store, ObjectId(resp[r].body.id)))

GivenTags(body) == IF "tags" \in body.present THEN body.tags ELSE <<>>

\* C10 (as stated): a note created and then fetched by its returned id has
\* title, content, tags and user_id identical to those of the request, and
\* the embedding the provider returned.
C10_RoundTripIdentical ==
    \A r \in Slots :
        Answered(r, "create", HTTP_201_CREATED) =>
            /\ Fetched(r).title = req[r].title
            /\ Fetched(r).content = req[r].content
            /\ Fetched(r).tags = GivenTags(req[r])
            /\ Fetched(r).user_id = req[r].user_id
            /\ Fetched(r).embedding = loc[r].provided.embedding

\* C10 (amended): title and content come back with the surrounding
\* whitespace removed; tags (same order), user_id and the provider's
\* embedding come back as given.
C10_RoundTripTrimmed ==
    \A r \in Slots :
        Answered(r, "create", HTTP_201_CREATED) =>
            /\ Fetched(r) # Nil
            /\ Fetched(r)._id = resp[r].body.id
            /\ Fetched(r).title = strip(req[r].title)
            /\ Fetched(r).content = strip(req[r].content)
            /\ Fetched(r).tags = GivenTags(req[r])
            /\ Fetched(r).user_id = req[r].user_id
            /\ Fetched(r).embedding = loc[r].provided.embedding

C10_Witness ==
    \E r \in Slots :
        /\ Answered(r, "create", HTTP_201_CREATED)
        /\ req[r].title # strip(req[r].title)
        /\ req[r].content # strip(req[r].content)
        /\ Len(GivenTags(req[r])) = 2
        /\ Len(store) = 2

\* C11: two list-notes calls for the same user and limit with no write in
\* between return the same sequence, also when notes share an updated_at:
\* whatever a second call can return over the unchanged store is what the
\* first call returned.
C11_ListIdempotent ==
    \A r \in Slots :
        Answered(r, "list", HTTP_200_OK) =>
            \A again \in list_notes(store, loc[r].params.user_id,
                                    loc[r].params.limit) :
                again = loc[r].results

\* C12: list-notes for user U returns only notes whose user_id is U, none
\* of them carrying the embedding field, ordered by updated_at descending.
C12_ListOwnNotesNewestFirst ==
    \A r \in Slots :
        Answered(r, "list", HTTP_200_OK) =>
            /\ Len(resp[r].body) = Len(loc[r].results)
            /\ \A n \in DOMAIN resp[r].body :
                 /\ resp[r].body[n].user_id = req[r].user_id
                 /\ "embedding" \notin DOMAIN loc[r].results[n]
                 /\ "embedding" \notin DOMAIN resp[r].body[n]
                 /\ \E i \in Owned(req[r].user_id) :
                        resp[r].body[n].id = str_oid(store[i]._id)
            /\ \A a, b \in DOMAIN resp[r].body :
                 a < b => resp[r].body[a].updated_at >= resp[r].body[b].updated_at

\* a listing that returned a note while a newer note of another user is
\* stored
C12_Witness ==
    \E r \in Slots :
        /\ Answered(r, "list", HTTP_200_OK)
        /\ Len(resp[r].body) >= 1
        /\ \E i \in DOMAIN store :
             /\ store[i].user_id # req[r].user_id
             /\ store[i].updated_at > resp[r].body[1].updated_at

\* C13: a search answers successfully with an empty result list only when
\* the store answered the query and the user has no matching note; when the
\* store query fails, or the collection was never connected, the search
\* ends in an error.
C13_EmptyOnlyWhenStoreAnswered ==
    \A r \in Slots :
        (kind[r] = "search" /\ pc[r] = "done") =>
            /\ (resp[r].status = HTTP_200_OK /\ Len(resp[r].body.results) = 0) =>
                  /\ loc[r].answer = "ok"
                  /\ "aggregate" \in Calls(r)
                  /\ Owned(req[r].user_id) = {}
            /\ (loc[r].answer = "raised" \/ collection = Nil) =>
                  resp[r].status = HTTP_500_INTERNAL_SERVER_ERROR
                     \/ (loc[r].provided = Nil
                            /\ resp[r].status = HTTP_422_UNPROCESSABLE_ENTITY)

\* a search whose embedding succeeded, made on a collection that was never
\* connected
C13_Witness ==
    \E r \in Slots :
        /\ kind[r] = "search" /\ pc[r] = "done"
        /\ collection = Nil
        /\ loc[r].embedding # Nil
        /\ resp[r].status = HTTP_500_INTERNAL_SERVER_ERROR

\* C14: a search request whose limit is 0, negative or greater than 50 is
\* answered with a validation error before any embedding call or store
\* query; every vector query sent to the store has 1 <= limit <= 50.
C14_LimitValidatedFirst ==
    \A r \in Slots :
        kind[r] = "search" =>
            /\ AskedLimit(req[r]) \notin limit_ge..limit_le =>
                  /\ pc[r] = "done"
                  /\ resp[r].status = HTTP_422_UNPROCESSABLE_ENTITY
                  /\ log[r] = <<>>
            /\ \A n \in DOMAIN log[r] :
                  log[r][n].call = "aggregate" =>
                     /\ log[r][n].limit \in 1..50
                     /\ log[r][n].limit = AskedLimit(req[r])

\* a search asking for more than 50 results has been answered
C14_Witness ==
    \E r \in Slots :
        /\ kind[r] = "search" /\ pc[r] = "done"
        /\ AskedLimit(req[r]) > limit_le
        /\ resp[r].status = HTTP_422_UNPROCESSABLE_ENTITY

\* the kind of an error response: its status and the outermost message,
\* which names the generic failure the detail is wrapped in
ErrorKind(response) == <<response.status, response.detail[1]>>

\* the error responses create_note gives when the embedding fails
EmbeddingFailures ==
    {create_note_except(generate_note_embedding(outcome).exc) :
        outcome \in {o \in ProviderOutcomes : ~generate_note_embedding(o).ok}}

\* C15: when the insert succeeds but the read-back of the inserted id
\* yields nothing, create-note fails with an error of another kind than
\* that of an embedding failure.
C15_ReadBackFailureDistinct ==
    \A r \in Slots :
        (kind[r] = "create" /\ pc[r] = "done"
            /\ "find_one" \in Calls(r) /\ loc[r].created_note = Nil) =>
            /\ resp[r].status >= 400
            /\ \A failure \in EmbeddingFailures :
                  ErrorKind(resp[r]) # ErrorKind(failure)

\* the messages an error response carries, outermost first
Messages(response) == {response.detail[n] : n \in DOMAIN response.detail}

\* C16: no provider or store error is swallowed or re-classified: a request
\* whose embedding call failed ends with a provider error, one whose vector
\* had the wrong length with a dimension error, and one whose store call
\* (insert, read-back, vector query, listing) failed with a store error.
C16_ErrorsPropagate ==
    \A r \in Slots :
        pc[r] = "done" =>
            /\ (loc[r].provided # Nil /\ loc[r].provided.raised) =>
                  resp[r].status >= 400 /\ "provider" \in Messages(resp[r])
            /\ (loc[r].provided # Nil /\ ~loc[r].provided.raised
                   /\ len(loc[r].provided.embedding) # gemini_embedding_dimensions) =>
                  resp[r].status >= 400
                     /\ "Expected dimensions" \in Messages(resp[r])
            /\ loc[r].answer = "raised" =>
                  resp[r].status >= 400 /\ "store" \in Messages(resp[r])

\* how many times request r has made the external call `call`
Count(r, call) == Cardinality({n \in DOMAIN log[r] : log[r][n].call = call})

\* C17: no internal retry: an ingestion request makes at most one embedding
\* call and at most one insert, a search request at most one embedding call
\* and at most one vector query, whether the calls succeed or fail.
C17_NoRetry ==
    \A r \in Slots :
        /\ kind[r] = "create" =>
              Count(r, "embed_content") <= 1 /\ Count(r, "insert_one") <= 1
        /\ kind[r] = "search" =>
              Count(r, "embed_content") <= 1 /\ Count(r, "aggregate") <= 1

\* an ingestion request that ended after its one embedding call failed
C17_Witness ==
    \E r \in Slots :
        /\ kind[r] = "create" /\ pc[r] = "done"
        /\ loc[r].provided # Nil /\ loc[r].provided.raised
        /\ Count(r, "embed_content") = 1
        /\ resp[r].status = HTTP_500_INTERNAL_SERVER_ERROR

\* C18: every embedding call of an ingestion request uses task_type
\* retrieval_document, every embedding call of a search request uses
\* retrieval_query, and neither uses the other's.
C18_EmbeddingModes ==
    \A r \in Slots :
        \A n \in DOMAIN log[r] :
            log[r][n].call = "embed_content" =>
                /\ kind[r] \in {"create", "search"}
                /\ kind[r] = "create" => log[r][n].task_type = "retrieval_document"
                /\ kind[r] = "search" => log[r][n].task_type = "retrieval_query"

\* an ingestion request and a search request under way together, each
\* having made its embedding call
C18_Witness ==
    \E r, s \in Slots :
        /\ kind[r] = "create" /\ Count(r, "embed_content") = 1
        /\ kind[s] = "search" /\ Count(s, "embed_content") = 1

\* C19: every create-note, search and list request eventually completes
\* with a response or an error, even when the embedding provider or the
\* store never answers.
C19_EveryRequestCompletes ==
    \A r \in Slots : (kind[r] # "none") ~> (pc[r] = "done")

\* request r has made an external call and waits for its completion
Waiting(r) ==
    pc[r] \in {"embedding", "q_embedding", "inserting", "reading",
               "searching", "listing"}

\* C20: requests run independently: while a request waits for the
\* embedding provider or for the store it does not hold the event loop, so
\* every other request can start and go on.
C20_LoopFreeWhileWaiting ==
    \A r \in Slots :
        Waiting(r) =>
            /\ loop # r
            /\ \A s \in Slots \ {r} : Runnable(s) \/ \E t \in Slots : pc[t] = "done"

\* the stored notes whose id, as a string, is `id`
StoredAs(id) == {i \in DOMAIN store : str_oid(store[i]._id) = id}

\* C21: however concurrent ingestion requests interleave, no two stored
\* notes share an id, and each request answered 201 has exactly one note
\* in the store under the id of its response; that note and the response
\* carry the (trimmed) title and content, the tags and the user_id of the
\* request itself, never those of a concurrent one.
C21_ConcurrentIngestionIsolated ==
    /\ \A i, j \in DOMAIN store : i # j => store[i]._id # store[j]._id
    /\ \A r \in Slots :
          Answered(r, "create", HTTP_201_CREATED) =>
              /\ Cardinality(StoredAs(resp[r].body.id)) = 1
              /\ \A i \in StoredAs(resp[r].body.id) :
                    /\ store[i].title = strip(req[r].title)
                    /\ store[i].content = strip(req[r].content)
                    /\ store[i].tags = GivenTags(req[r])
                    /\ store[i].user_id = req[r].user_id
              /\ resp[r].body.title = strip(req[r].title)
              /\ resp[r].body.content = strip(req[r].content)
              /\ resp[r].body.tags = GivenTags(req[r])
              /\ resp[r].body.user_id = req[r].user_id

\* a request answered 201 although a concurrent request of another user,
\* still under way, inserted its note after this one's
C21_Witness ==
    \E r, s \in Slots :
        /\ Answered(r, "create", HTTP_201_CREATED)
        /\ kind[s] = "create" /\ pc[s] = "reading"
        /\ req[s].user_id # req[r].user_id
        /\ req[s].title # req[r].title
        /\ ObjectId(loc[s].note_id).oid > ObjectId(resp[r].body.id).oid

\* C22: the note collection is append-only: no step of any operation
\* (create-note, search, list-notes, suggest-tags, health, startup) changes
\* or removes a stored note or its id; the collection changes only when a
\* create request's insert completes, by one note added at the end.
C22_AppendOnly ==
    [][/\ \A i \in DOMAIN store : i \in DOMAIN store' /\ store'[i] = store[i]
       /\ store' # store =>
             /\ Len(store') = Len(store) + 1
             /\ \E r \in Slots :
                   /\ kind[r] = "create"
                   /\ pc[r] = "inserting" /\ pc'[r] = "reading"
                   /\ store'[Len(store')]._id = ObjectId(loc'[r].note_id)
             /\ \A r \in Slots :
                   kind[r] \in {"search", "list", "suggest", "health"} =>
                      pc'[r] = pc[r]]_vars

\* a search has returned a stored note while a create request that has
\* inserted its note is still under way
C22_Witness ==
    \E r \in Slots :
        /\ Answered(r, "search", HTTP_200_OK)
        /\ Len(resp[r].body.results) >= 1
        /\ Len(store) = 2
        /\ \E s \in Slots : kind[s] = "create" /\ pc[s] = "reading"

\* C23: within a search request the vector query is issued only after the
\* embedding call has returned a vector of length D; when the call fails
\* or the vector has another length, the request ends in an error and no
\* vector query is issued.
C23_EmbedBeforeVectorQuery ==
    \A r \in Slots :
        kind[r] = "search" =>
            /\ "aggregate" \in Calls(r) =>
                 /\ Len(log[r]) = 2
                 /\ log[r][1].call = "embed_content"
                 /\ log[r][2].call = "aggregate"
                 /\ loc[r].provided # Nil
                 /\ ~loc[r].provided.raised
                 /\ len(loc[r].provided.embedding) = gemini_embedding_dimensions
                 /\ loc[r].embedding = loc[r].provided.embedding
            /\ (loc[r].provided # Nil
                  /\ (loc[r].provided.raised
                        \/ len(loc[r].provided.embedding) # gemini_embedding_dimensions)) =>
                 /\ pc[r] = "done"
                 /\ resp[r].status >= 400
                 /\ "aggregate" \notin Calls(r)

\* a search that ended after the provider returned a vector one too long,
\* on a connected collection
C23_Witness ==
    \E r \in Slots :
        /\ kind[r] = "search" /\ pc[r] = "done"
        /\ collection # Nil
        /\ loc[r].provided # Nil /\ ~loc[r].provided.raised
        /\ len(loc[r].provided.embedding) = gemini_embedding_dimensions + 1
        /\ Calls(r) = {"embed_content"}

\* C24: the candidate pool size of every vector query is the configured
\* constant, whatever the request, and is strictly larger than the limit,
\* for every limit a search request may carry (1..50).
C24_PoolLargerThanLimit ==
    /\ \A limit \in limit_ge..limit_le :
          /\ vector_search_pipeline(limit, <<"u">>).numCandidates = 100
          /\ vector_search_pipeline(limit, <<"u">>).numCandidates > limit
    /\ \A r \in Slots :
          \A n \in DOMAIN log[r] :
              log[r][n].call = "aggregate" =>
                  /\ log[r][n].numCandidates = vector_search_num_candidates
                  /\ log[r][n].numCandidates > log[r][n].limit
                  /\ log[r][n].limit = AskedLimit(req[r])

\* a search that carried no limit has made its vector query with the
\* default limit, over a collection holding a note of its user
C24_Witness ==
    \E r \in Slots :
        /\ Answered(r, "search", HTTP_200_OK)
        /\ "limit" \notin req[r].present
        /\ log[r][2].limit = limit_default
        /\ \E i \in DOMAIN store : store[i].user_id = req[r].user_id

\* the tags, each followed by ", " except the last
RECURSIVE CommaSeparated(_)
CommaSeparated(tags) ==
    IF Len(tags) = 0 THEN <<>>
    ELSE IF Len(tags) = 1 THEN tags[1]
    ELSE tags[1] \o <<",", " ">> \o CommaSeparated(Tail(tags))

\* C25: the text sent to the embedding provider for a note is the title, a
\* blank line, the content and, only when there are tags, a further blank
\* line, "Tags: " and the tags joined by ", " in the order given; without
\* tags nothing follows the content.
C25_CombinedText ==
    \A r \in Slots :
        (kind[r] = "create" /\ log[r] # <<>>) =>
            LET n == loc[r].note
                sent == log[r][1].content
                head == n.title \o <<"\n", "\n">> \o n.content
            IN  /\ log[r][1].call = "embed_content"
                /\ n.tags = <<>> => sent = head
                /\ n.tags # <<>> =>
                      sent = head \o <<"\n", "\n">>
                                  \o <<"T", "a", "g", "s", ":", " ">>
                                  \o CommaSeparated(n.tags)
                /\ n.tags = GivenTags(req[r])

\* the note " a" / "c " with tags y, x has been sent as
\* "a\n\nc\n\nTags: y, x"
C25_Witness ==
    \E r \in Slots :
        /\ kind[r] = "create" /\ log[r] # <<>>
        /\ GivenTags(req[r]) = << <<"y">>, <<"x">> >>
        /\ log[r][1].content =
              <<"a", "\n", "\n", "c", "\n", "\n",
                "T", "a", "g", "s", ":", " ", "y", ",", " ", "x">>

\* the clock reading at which an answered search took its end time
EndTime(r) == loc[r].start_time + resp[r].body.search_time_ms \div 1000

\* C26: in a successful search the measurement starts before the embedding
\* call and ends after the store query has returned: the start time is
\* held while either call is under way, and the time reported reaches from
\* it to a reading not earlier than anything the store held when it
\* answered.
C26_ElapsedSpansBothCalls ==
    \A r \in Slots :
        kind[r] = "search" =>
            /\ pc[r] \in {"q_embedding", "searching"} =>
                  /\ loc[r].start_time >= 0
                  /\ loc[r].start_time <= Latest
            /\ Answered(r, "search", HTTP_200_OK) =>
                  /\ Calls(r) = {"embed_content", "aggregate"}
                  /\ resp[r].body.search_time_ms >= 0
                  /\ resp[r].body.search_time_ms % 1000 = 0
                  /\ EndTime(r) >= Latest
                  /\ \A i \in DOMAIN store : store[i].created_at <= EndTime(r)

\* a search answered with a positive time, a note having been created
\* after it began
C26_Witness ==
    \E r \in Slots :
        /\ Answered(r, "search", HTTP_200_OK)
        /\ loc[r].start_time = 0
        /\ resp[r].body.search_time_ms = 1000
        /\ \E i \in DOMAIN store : store[i].created_at = 1

\* C27: when an ingestion request ends in an error response, no note
\* written by it remains in the store, in particular when the insert
\* succeeded and the read-back failed.
C27_FailedIngestionLeavesNoNote ==
    \A r \in Slots :
        (kind[r] = "create" /\ pc[r] = "done" /\ resp[r].status >= 400) =>
            StoredAs(loc[r].note_id) = {}

\* C28: list-notes never returns more notes than the limit asked for,
\* whatever integer that is, and treats a limit of 0 or a negative limit
\* as search does: the request is answered with a validation error and
\* nothing is asked of the store.
C28_ListLimitPolicy ==
    \A r \in Slots :
        (kind[r] = "list" /\ pc[r] = "done") =>
            /\ resp[r].status = HTTP_200_OK =>
                  Len(resp[r].body) <= req[r].limit
            /\ req[r].limit < limit_ge =>
                  /\ resp[r].status = HTTP_422_UNPROCESSABLE_ENTITY
                  /\ log[r] = <<>>

\* request r is a database operation that got past validation
DatabaseOperation(r) ==
    /\ kind[r] \in {"create", "search", "list"}
    /\ resp[r] # RequestValidationError

C30_EmptySuggestRejected ==
    \A r \in Slots :
        ( /\ kind[r] = "suggest" /\ pc[r] = "done"
          /\ dict_get(req[r], "title") = <<>>
          /\ dict_get(req[r], "content") = <<>> ) =>
            /\ resp[r].status = HTTP_400_BAD_REQUEST
            /\ resp[r].detail # <<>>

============================================================================
